---- MODULE Spec2Model ----
(***************************************************************************)
(* The validating-replica core of the AT2 transfer system: WalletReplica   *)
(* (validate / register / receive_propagated / genesis / add_known_group   *)
(* and the single mutator apply), driven by one caller that has at most    *)
(* one call in flight and applies the event of a successful call.          *)
(***************************************************************************)
EXTENDS Integers, Sequences, FiniteSets, TLC

VARIABLES replica, last, applied_debits, validated_debits, history, signing

vars == <<replica, last, applied_debits, validated_debits, history, signing>>

(***************************************************************************)
(* Bounds of the model.                                                    *)
(***************************************************************************)
MaxCounter == 2
MaxAmount == 2
MaxHistory == 3

(***************************************************************************)
(* Keys.  A PublicKey is either an actor key or the aggregate key of a     *)
(* replica group (PublicKey::Bls(set.public_key())).                       *)
(***************************************************************************)
WalletId == "W"
OtherActor == "A"
ActorKeys == {WalletId, OtherActor}
OwnGroup == "G0"
PastGroup == "G1"
ForeignGroup == "G2"
ForgerKey == "Gx"
KnownableGroups == {PastGroup, ForeignGroup}
GroupKeys == {OwnGroup} \cup KnownableGroups

public_key(set) == set

(***************************************************************************)
(* Option<T> is a sequence of length at most one, Result<T> a record.      *)
(***************************************************************************)
None == <<>>
Some(v) == <<v>>
is_some(o) == Len(o) = 1
is_none(o) == Len(o) = 0

Ok == [ok |-> TRUE, err |-> "none"]
Err(e) == [ok |-> FALSE, err |-> e]
OkKey(k) == [ok |-> TRUE, err |-> "none", key |-> k]
ErrKey(e) == [ok |-> FALSE, err |-> e, key |-> "none"]

(* Outcome<T> = Result<Option<T>>: success = Ok(Some), no_change = Ok(None), *)
(* rejected(e) = Err(e).                                                    *)
success(payload) == [kind |-> "success", err |-> "none", payload |-> <<payload>>]
no_change == [kind |-> "no_change", err |-> "none", payload |-> <<>>]
rejected(e) == [kind |-> "rejected", err |-> e, payload |-> <<>>]
Unit == "unit"

(***************************************************************************)
(* Canonical serialisation (bincode): the fields in declaration order.     *)
(***************************************************************************)
serialize_debit(d) == <<"Debit", d.id.actor, d.id.counter, d.amount>>
serialize_credit(c) == <<"Credit", c.id, c.amount, c.recipient, c.msg>>
serialize_signed_debit(sd) == <<"SignedDebit", serialize_debit(sd.debit), sd.actor_signature>>
serialize_signed_credit(sc) == <<"SignedCredit", serialize_credit(sc.credit), sc.actor_signature>>

(* A signature names the key that produced it and the bytes it covers.     *)
Sign(key, bytes) == [by |-> key, over |-> bytes]
verify(pk, sig, bytes) == sig.by = pk /\ sig.over = bytes

(* Debit::credit_id(): a hash of the serialised debit id.                  *)
credit_id(d) == <<"CreditId", d.id.actor, d.id.counter>>
DefaultCreditId == <<"CreditId", "default", 0>>

(***************************************************************************)
(* Wallet: balance, applied credit ids, next debit counter.                *)
(***************************************************************************)
Wallet_new(id) == [id |-> id, balance |-> 0, credit_ids |-> {}, next |-> 0]
balance_of(w) == w.balance
next_debit(w) == w.next
contains(w, cid) == cid \in w.credit_ids

apply_debit(w, d) ==
    IF d.id.counter # next_debit(w) \/ d.amount > w.balance
    THEN [res |-> Err("InvalidOperation"), wallet |-> w]
    ELSE [res |-> Ok,
          wallet |-> [w EXCEPT !.balance = w.balance - d.amount,
                               !.next = w.next + 1]]

apply_credit(w, c) ==
    IF c.id \in w.credit_ids
    THEN [res |-> Err("InvalidOperation"), wallet |-> w]
    ELSE [res |-> Ok,
          wallet |-> [w EXCEPT !.balance = w.balance + c.amount,
                               !.credit_ids = w.credit_ids \cup {c.id}]]

(***************************************************************************)
(* WalletReplica.                                                          *)
(***************************************************************************)
from_snapshot(id, replica_id, key_index, peer_replicas, other_groups, wallet, pending_debit) ==
    [id |-> id,
     replica_id |-> replica_id,
     key_index |-> key_index,
     peer_replicas |-> peer_replicas,
     other_groups |-> other_groups,
     wallet |-> wallet,
     pending_debit |-> pending_debit]

balance(self) == balance_of(self.wallet)

verify_actor_signature(self, signed_debit, signed_credit) ==
    LET debit == signed_debit.debit
        credit == signed_credit.credit
        debit_bytes == serialize_debit(debit)
        credit_bytes == serialize_credit(credit)
        valid_debit == verify(debit.id.actor, signed_debit.actor_signature, debit_bytes)
        valid_credit == verify(debit.id.actor, signed_credit.actor_signature, credit_bytes)
    IN  IF valid_debit /\ valid_credit /\ credit.id = credit_id(debit)
        THEN Ok
        ELSE Err("InvalidSignature")

ErrSameParty == "Sender and recipient are the same."
ErrCreditMismatch == "The credit does not correspond to the debit."
ErrAmounts == "Amounts must be equal."
ErrZero == "Unexpected: Transfer amount must be more than zero."
ErrOrderFirst == "out of order msg, actor's counter should be 0"
ErrOrder == "out of order msg, debit counter, current counter"

(* validate that compares the counter with pending_debit itself.          *)
validate_counter_repeat(self, signed_debit, signed_credit) ==
    LET debit == signed_debit.debit
        credit == signed_credit.credit
    IN  IF ~verify_actor_signature(self, signed_debit, signed_credit).ok
        THEN rejected("InvalidSignature")
        ELSE IF debit.id.actor = credit.recipient
        THEN rejected(ErrSameParty)
        ELSE IF credit.id # credit_id(debit)
        THEN rejected(ErrCreditMismatch)
        ELSE IF credit.amount # debit.amount
        THEN rejected(ErrAmounts)
        ELSE IF debit.amount = 0
        THEN rejected(ErrZero)
        ELSE IF self.wallet.id # debit.id.actor
        THEN rejected("NoSuchSender")
        ELSE IF is_none(self.pending_debit) /\ debit.id.counter # 0
        THEN rejected(ErrOrderFirst)
        ELSE IF is_some(self.pending_debit)
        THEN (IF debit.id.counter # self.pending_debit[1]
              THEN rejected(ErrOrder)
              ELSE success(Unit))
        ELSE IF debit.amount > balance(self)
        THEN rejected("InsufficientBalance")
        ELSE success(Unit)

validate(self, signed_debit, signed_credit) ==
    LET debit == signed_debit.debit
        credit == signed_credit.credit
    IN  IF ~verify_actor_signature(self, signed_debit, signed_credit).ok
        THEN rejected("InvalidSignature")
        ELSE IF debit.id.actor = credit.recipient
        THEN rejected(ErrSameParty)
        ELSE IF credit.id # credit_id(debit)
        THEN rejected(ErrCreditMismatch)
        ELSE IF credit.amount # debit.amount
        THEN rejected(ErrAmounts)
        ELSE IF debit.amount = 0
        THEN rejected(ErrZero)
        ELSE IF self.wallet.id # debit.id.actor
        THEN rejected("NoSuchSender")
        ELSE IF is_none(self.pending_debit) /\ debit.id.counter # 0
        THEN rejected(ErrOrderFirst)
        ELSE IF is_some(self.pending_debit)
        THEN (IF debit.id.counter # self.pending_debit[1] + 1
              THEN rejected(ErrOrder)
              ELSE success(Unit))
        ELSE IF debit.amount > balance(self)
        THEN rejected("InsufficientBalance")
        ELSE success(Unit)

(* verify_registered_proof that checks each aggregate signature against   *)
(* the current and the past key separately.                                *)
verify_registered_proof_mixed_keys(self, proof, past_key) ==
    IF proof.signed_credit.credit.id # credit_id(proof.signed_debit.debit)
    THEN Err("NetworkOther: Credit does not correspond with the debit.")
    ELSE
    LET debit_bytes == serialize_signed_debit(proof.signed_debit)
        credit_bytes == serialize_signed_credit(proof.signed_credit)
        our_key == public_key(self.peer_replicas)
    IN  IF verify(our_key, proof.debit_sig, debit_bytes)
           /\ verify(our_key, proof.credit_sig, credit_bytes)
        THEN Ok
        ELSE IF ~past_key.ok
        THEN Err(past_key.err)
        ELSE IF (verify(our_key, proof.debit_sig, debit_bytes)
                    \/ verify(past_key.key, proof.debit_sig, debit_bytes))
                /\ (verify(our_key, proof.credit_sig, credit_bytes)
                    \/ verify(past_key.key, proof.credit_sig, credit_bytes))
        THEN Ok
        ELSE Err("InvalidSignature")

(* Verify that this is a valid registered TransferAgreementProof, i.e.     *)
(* signed by our peers (or by the past key the caller supplies).           *)
verify_registered_proof(self, proof, past_key) ==
    IF proof.signed_credit.credit.id # credit_id(proof.signed_debit.debit)
    THEN Err("NetworkOther: Credit does not correspond with the debit.")
    ELSE
    LET debit_bytes == serialize_signed_debit(proof.signed_debit)
        credit_bytes == serialize_signed_credit(proof.signed_credit)
        our_key == public_key(self.peer_replicas)
    IN  IF verify(our_key, proof.debit_sig, debit_bytes)
           /\ verify(our_key, proof.credit_sig, credit_bytes)
        THEN Ok
        ELSE IF ~past_key.ok
        THEN Err(past_key.err)
        ELSE IF verify(past_key.key, proof.debit_sig, debit_bytes)
                /\ verify(past_key.key, proof.credit_sig, credit_bytes)
        THEN Ok
        ELSE Err("InvalidSignature")

(* Verify that this is a valid propagated proof, i.e. signed by a group    *)
(* that we know of.                                                        *)
verify_propagated_proof(self, proof, past_key) ==
    LET credit_bytes == serialize_signed_credit(proof.signed_credit)
        our_key == public_key(self.peer_replicas)
    IN  IF verify(our_key, proof.debiting_replicas_sig, credit_bytes)
        THEN Ok
        ELSE IF ~past_key.ok
        THEN Err(past_key.err)
        ELSE IF verify(past_key.key, proof.debiting_replicas_sig, credit_bytes)
        THEN Ok
        ELSE IF \E set \in self.other_groups :
                    verify(public_key(set), proof.debiting_replicas_sig, credit_bytes)
        THEN Ok
        ELSE Err("InvalidSignature")

TransferRegistered(proof) == [kind |-> "TransferRegistered", transfer_proof |-> proof]
TransferPropagated(proof) == [kind |-> "TransferPropagated", credit_proof |-> proof]
TransferValidated(sd, sc) == [kind |-> "TransferValidated", signed_debit |-> sd, signed_credit |-> sc]
KnownGroupAdded(group) == [kind |-> "KnownGroupAdded", group |-> group]

(* register that accepts every counter from next_debit on.                 *)
register_counter_at_least(self, transfer_proof, past_key) ==
    IF ~verify_registered_proof(self, transfer_proof, past_key).ok
    THEN rejected("InvalidSignature")
    ELSE IF next_debit(self.wallet) <= transfer_proof.signed_debit.debit.id.counter
    THEN success(TransferRegistered(transfer_proof))
    ELSE rejected("InvalidOperation")

(* Step 2. Validation of agreement, and order at debit source.             *)
register(self, transfer_proof, past_key) ==
    IF ~verify_registered_proof(self, transfer_proof, past_key).ok
    THEN rejected("InvalidSignature")
    ELSE IF next_debit(self.wallet) = transfer_proof.signed_debit.debit.id.counter
    THEN success(TransferRegistered(transfer_proof))
    ELSE rejected("InvalidOperation")

(* receive_propagated without the idempotency check.                       *)
receive_propagated_no_contains(self, credit_proof, past_key) ==
    LET v == verify_propagated_proof(self, credit_proof, past_key)
    IN  IF ~v.ok
        THEN rejected(v.err)
        ELSE success(Unit)

(* Step 3. Validation of the proof, and credit idempotency at the          *)
(* credit destination.                                                     *)
receive_propagated(self, credit_proof, past_key) ==
    LET v == verify_propagated_proof(self, credit_proof, past_key)
    IN  IF ~v.ok
        THEN rejected(v.err)
        ELSE IF contains(self.wallet, credit_proof.signed_credit.credit.id)
        THEN no_change
        ELSE success(Unit)

(* genesis that looks at the balance only.                                 *)
genesis_balance_only(self, credit_proof, past_key) ==
    IF balance(self) # 0
    THEN rejected("InvalidOperation")
    ELSE receive_propagated(self, credit_proof, past_key)

genesis(self, credit_proof, past_key) ==
    IF balance(self) # 0 \/ is_some(self.pending_debit)
    THEN rejected("InvalidOperation")
    ELSE receive_propagated(self, credit_proof, past_key)

(* add_known_group that does not look the group up.                        *)
add_known_group_unchecked(self, group) ==
    success(KnownGroupAdded(group))

add_known_group(self, group) ==
    IF group \in self.other_groups
    THEN rejected("DataExists")
    ELSE success(KnownGroupAdded(group))

(* apply that discards the result of the wallet's apply_debit.             *)
apply_discarding_debit_result(self, event) ==
    IF event.kind = "KnownGroupAdded"
    THEN [res |-> Ok,
          replica |-> [self EXCEPT !.other_groups = self.other_groups \cup {event.group}]]
    ELSE IF event.kind = "TransferValidated"
    THEN [res |-> Ok,
          replica |-> [self EXCEPT !.pending_debit = Some(event.signed_debit.debit.id.counter)]]
    ELSE IF event.kind = "TransferRegistered"
    THEN LET debit == event.transfer_proof.signed_debit.debit
             r == apply_debit(self.wallet, [id |-> debit.id, amount |-> debit.amount])
         IN  [res |-> Ok, replica |-> [self EXCEPT !.wallet = r.wallet]]
    ELSE LET credit == event.credit_proof.signed_credit.credit
             r == apply_credit(self.wallet, credit)
         IN  [res |-> r.res, replica |-> [self EXCEPT !.wallet = r.wallet]]

(* apply that records the counter after the validated one.                 *)
apply_pending_next(self, event) ==
    IF event.kind = "KnownGroupAdded"
    THEN [res |-> Ok,
          replica |-> [self EXCEPT !.other_groups = self.other_groups \cup {event.group}]]
    ELSE IF event.kind = "TransferValidated"
    THEN [res |-> Ok,
          replica |-> [self EXCEPT !.pending_debit = Some(event.signed_debit.debit.id.counter + 1)]]
    ELSE IF event.kind = "TransferRegistered"
    THEN LET debit == event.transfer_proof.signed_debit.debit
             r == apply_debit(self.wallet, [id |-> debit.id, amount |-> debit.amount])
         IN  [res |-> r.res, replica |-> [self EXCEPT !.wallet = r.wallet]]
    ELSE LET credit == event.credit_proof.signed_credit.credit
             r == apply_credit(self.wallet, credit)
         IN  [res |-> r.res, replica |-> [self EXCEPT !.wallet = r.wallet]]

(* apply that takes a registered debit off pending_debit.                   *)
apply_clearing_pending(self, event) ==
    IF event.kind = "KnownGroupAdded"
    THEN [res |-> Ok,
          replica |-> [self EXCEPT !.other_groups = self.other_groups \cup {event.group}]]
    ELSE IF event.kind = "TransferValidated"
    THEN [res |-> Ok,
          replica |-> [self EXCEPT !.pending_debit = Some(event.signed_debit.debit.id.counter)]]
    ELSE IF event.kind = "TransferRegistered"
    THEN LET debit == event.transfer_proof.signed_debit.debit
             r == apply_debit(self.wallet, [id |-> debit.id, amount |-> debit.amount])
         IN  [res |-> r.res,
              replica |-> [self EXCEPT !.wallet = r.wallet,
                                       !.pending_debit = IF r.res.ok THEN None ELSE @]]
    ELSE LET credit == event.credit_proof.signed_credit.credit
             r == apply_credit(self.wallet, credit)
         IN  [res |-> r.res, replica |-> [self EXCEPT !.wallet = r.wallet]]

(* Mutation of state: the only mutator.                                    *)
apply(self, event) ==
    IF event.kind = "KnownGroupAdded"
    THEN [res |-> Ok,
          replica |-> [self EXCEPT !.other_groups = self.other_groups \cup {event.group}]]
    ELSE IF event.kind = "TransferValidated"
    THEN [res |-> Ok,
          replica |-> [self EXCEPT !.pending_debit = Some(event.signed_debit.debit.id.counter)]]
    ELSE IF event.kind = "TransferRegistered"
    THEN LET debit == event.transfer_proof.signed_debit.debit
             r == apply_debit(self.wallet, [id |-> debit.id, amount |-> debit.amount])
         IN  [res |-> r.res, replica |-> [self EXCEPT !.wallet = r.wallet]]
    ELSE LET credit == event.credit_proof.signed_credit.credit
             r == apply_credit(self.wallet, credit)
         IN  [res |-> r.res, replica |-> [self EXCEPT !.wallet = r.wallet]]

(* A replay that carries on after a failed apply.                          *)
RECURSIVE replay_ignoring_failures(_, _)
replay_ignoring_failures(instance, events) ==
    IF events = <<>>
    THEN [res |-> Ok, replica |-> <<instance>>]
    ELSE replay_ignoring_failures(apply(instance, Head(events)).replica, Tail(events))

(* A new replica instance from a history of events: an empty replica on    *)
(* which the events are replayed in order; the first failure aborts.       *)
RECURSIVE replay(_, _)
replay(instance, events) ==
    IF events = <<>>
    THEN [res |-> Ok, replica |-> <<instance>>]
    ELSE LET r == apply(instance, Head(events))
         IN  IF ~r.res.ok
             THEN [res |-> r.res, replica |-> <<>>]
             ELSE replay(r.replica, Tail(events))

from_history(id, replica_id, key_index, peer_replicas, events) ==
    replay(from_snapshot(id, replica_id, key_index, peer_replicas, {}, Wallet_new(id), None),
           events)

(***************************************************************************)
(* The inputs the caller can hand to the replica.                          *)
(***************************************************************************)
Counters == 0..MaxCounter
Amounts == 0..MaxAmount

Debits == {[id |-> [actor |-> a, counter |-> c], amount |-> m] :
              a \in ActorKeys, c \in Counters, m \in Amounts}

(* A signed debit; a signature by any key but the sender's is a forgery.   *)
SignedDebitsOf(d) == {[debit |-> d, actor_signature |-> Sign(k, serialize_debit(d))] :
                         k \in ActorKeys}

(* The credit that comes with a debit: the matching credit id or another,   *)
(* the same amount or another, either recipient.                           *)
CreditAmountsOf(d) == {d.amount, (d.amount + 1) % (MaxAmount + 1)}

CreditsOf(d) == {[id |-> i, amount |-> m, recipient |-> r, msg |-> "transfer"] :
                    i \in {credit_id(d), DefaultCreditId}, m \in CreditAmountsOf(d),
                    r \in ActorKeys}

SignedCreditsOf(c) == {[credit |-> c, actor_signature |-> Sign(k, serialize_credit(c))] :
                          k \in ActorKeys}

(* The transfers offered to the group for agreement: signed by the sender, *)
(* the credit for the other actor, with or without the matching credit id. *)
AgreedDebits == {d \in Debits : d.amount > 0}
AggregateSignerPairs == {<<OwnGroup, OwnGroup>>, <<PastGroup, PastGroup>>,
                         <<OwnGroup, PastGroup>>, <<PastGroup, OwnGroup>>,
                         <<ForgerKey, ForgerKey>>}

TransferProof(d, i, kd, kc) ==
    LET c == [id |-> IF i = "match" THEN credit_id(d) ELSE DefaultCreditId, amount |-> d.amount,
              recipient |-> CHOOSE r \in ActorKeys : r # d.id.actor,
              msg |-> "transfer"]
        sd == [debit |-> d, actor_signature |-> Sign(d.id.actor, serialize_debit(d))]
        sc == [credit |-> c, actor_signature |-> Sign(d.id.actor, serialize_credit(c))]
    IN  [signed_debit |-> sd, signed_credit |-> sc,
         debit_sig |-> Sign(kd, serialize_signed_debit(sd)),
         credit_sig |-> Sign(kc, serialize_signed_credit(sc)),
         debiting_replicas_keys |-> kd]

TransferProofs ==
    {TransferProof(d, i, ks[1], ks[2]) :
        d \in AgreedDebits, i \in {"match", "default"}, ks \in AggregateSignerPairs}

(* Credits propagated to this group, a genesis credit among them.          *)
PropagatedCreditIds == {DefaultCreditId, credit_id([id |-> [actor |-> OtherActor, counter |-> 0]])}
PropagatedSigners == GroupKeys \cup {ForgerKey}

CreditProof(i, m, r, k) ==
    LET c == [id |-> i, amount |-> m, recipient |-> r, msg |-> "transfer"]
        sc == [credit |-> c, actor_signature |-> Sign(OtherActor, serialize_credit(c))]
    IN  [signed_credit |-> sc,
         debiting_replicas_sig |-> Sign(k, serialize_signed_credit(sc)),
         debiting_replicas_keys |-> k]

CreditProofs ==
    {CreditProof(i, m, r, k) :
        i \in PropagatedCreditIds, m \in Amounts, r \in ActorKeys, k \in PropagatedSigners}

(* What the caller's past_key closure can return.                          *)
PastKeyResults == {OkKey(k) : k \in KnownableGroups} \cup {ErrKey("NoSuchKey")}

NoPastKey == ErrKey("unused")

(***************************************************************************)
(* The replica and its caller.  last is the call the caller made last and  *)
(* what it returned; applied_debits lists the counters of the              *)
(* TransferRegistered events that apply accepted, in order, and            *)
(* validated_debits those of the TransferValidated events; history is the  *)
(* event sequence a replay has consumed so far; signing is the replica's   *)
(* ReplicaSigning with the call it has in flight.                          *)
(***************************************************************************)
ReplicaId == "share0"
KeyIndex == 0

(* A PublicKeySet: the group's aggregate key and its threshold.            *)
PublicKeySet(group, threshold) == [group |-> group, threshold |-> threshold]
set_public_key(pks) == pks.group

ReplicaSigning_new(key_index, peer_replicas) ==
    [key_index |-> key_index, peer_replicas |-> peer_replicas,
     op |-> "idle", pc |-> "idle", arg |-> <<>>, calls |-> <<>>, sent |-> <<>>,
     partial |-> <<>>, result |-> <<>>]

InitReplica ==
    /\ replica = from_snapshot(WalletId, ReplicaId, KeyIndex, OwnGroup, {},
                               Wallet_new(WalletId), None)
    /\ last = [op |-> "new"]
    /\ applied_debits = <<>>
    /\ validated_debits = <<>>
    /\ history = <<>>

Init ==
    /\ InitReplica
    /\ signing = ReplicaSigning_new(KeyIndex, PublicKeySet(OwnGroup, 0))

(* At most one call is in flight: a call is made on a fresh replica or     *)
(* after the previous event was applied.                                   *)
CallerReady == last.op \in {"new", "apply"}

(* validate that records the counter itself instead of leaving it to apply. *)
Validate_recording_pending ==
    /\ CallerReady
    /\ \E d \in Debits : \E sd \in SignedDebitsOf(d) :
       \E c \in CreditsOf(d) : \E sc \in SignedCreditsOf(c) :
          LET out == validate(replica, sd, sc)
          IN  /\ last' = [op |-> "validate",
                          arg |-> [signed_debit |-> sd, signed_credit |-> sc],
                          past_key |-> NoPastKey,
                          out |-> out]
              /\ replica' = IF out.kind = "success"
                            THEN [replica EXCEPT !.pending_debit = Some(d.id.counter)]
                            ELSE replica
    /\ UNCHANGED <<applied_debits, validated_debits, history, signing>>

Validate ==
    /\ CallerReady
    /\ \E d \in Debits : \E sd \in SignedDebitsOf(d) :
       \E c \in CreditsOf(d) : \E sc \in SignedCreditsOf(c) :
          last' = [op |-> "validate",
                   arg |-> [signed_debit |-> sd, signed_credit |-> sc],
                   past_key |-> NoPastKey,
                   out |-> validate(replica, sd, sc)]
    /\ UNCHANGED <<replica, applied_debits, validated_debits, history, signing>>

Register ==
    /\ CallerReady
    /\ \E proof \in TransferProofs : \E pk \in PastKeyResults :
          last' = [op |-> "register", arg |-> proof, past_key |-> pk,
                   out |-> register(replica, proof, pk)]
    /\ UNCHANGED <<replica, applied_debits, validated_debits, history, signing>>

ReceivePropagated ==
    /\ CallerReady
    /\ \E proof \in CreditProofs : \E pk \in PastKeyResults :
          last' = [op |-> "receive_propagated", arg |-> proof, past_key |-> pk,
                   out |-> receive_propagated(replica, proof, pk)]
    /\ UNCHANGED <<replica, applied_debits, validated_debits, history, signing>>

Genesis ==
    /\ CallerReady
    /\ \E proof \in CreditProofs : \E pk \in PastKeyResults :
          last' = [op |-> "genesis", arg |-> proof, past_key |-> pk,
                   out |-> genesis(replica, proof, pk)]
    /\ UNCHANGED <<replica, applied_debits, validated_debits, history, signing>>

AddKnownGroup ==
    /\ CallerReady
    /\ \E group \in KnownableGroups :
          last' = [op |-> "add_known_group", arg |-> group, past_key |-> NoPastKey,
                   out |-> add_known_group(replica, group)]
    /\ UNCHANGED <<replica, applied_debits, validated_debits, history, signing>>

(* The event a successful call stands for.                                 *)
EventOf(call) ==
    IF call.op = "validate"
    THEN TransferValidated(call.arg.signed_debit, call.arg.signed_credit)
    ELSE IF call.op \in {"receive_propagated", "genesis"}
    THEN TransferPropagated(call.arg)
    ELSE call.out.payload[1]

(* The caller applies the event of the call that just succeeded.           *)
Apply ==
    /\ last.op \notin {"new", "apply"}
    /\ last.out.kind = "success"
    /\ LET event == EventOf(last)
           r == apply(replica, event)
       IN  /\ replica' = r.replica
           /\ last' = [op |-> "apply", of |-> last.op, kind |-> event.kind, res |-> r.res]
           /\ applied_debits' =
                 IF event.kind = "TransferRegistered" /\ r.res.ok
                 THEN Append(applied_debits, event.transfer_proof.signed_debit.debit.id.counter)
                 ELSE applied_debits
           /\ validated_debits' =
                 IF event.kind = "TransferValidated" /\ r.res.ok
                 THEN Append(validated_debits, event.signed_debit.debit.id.counter)
                 ELSE validated_debits
    /\ UNCHANGED <<history, signing>>

Next == Validate \/ Register \/ ReceivePropagated \/ Genesis \/ AddKnownGroup \/ Apply

Spec == Init /\ [][Next]_vars

(***************************************************************************)
(* Replay: from_history's loop taken one event at a time on the empty      *)
(* replica, over arbitrary (not pre-validated) events.                     *)
(***************************************************************************)
ReplayEvents ==
    {KnownGroupAdded(g) : g \in KnownableGroups}
    \cup {TransferValidated(TransferProof(d, "match", OwnGroup, OwnGroup).signed_debit,
                            TransferProof(d, "match", OwnGroup, OwnGroup).signed_credit) :
             d \in {x \in AgreedDebits : x.id.actor = WalletId /\ x.amount = 1}}
    \cup {TransferRegistered(TransferProof(d, "match", OwnGroup, OwnGroup)) :
             d \in {x \in AgreedDebits : x.id.actor = WalletId}}
    \cup {TransferPropagated(CreditProof(i, m, WalletId, OwnGroup)) :
             i \in PropagatedCreditIds, m \in Amounts}

ReplayStep ==
    /\ last.op \in {"new", "replay"}
    /\ last.op = "replay" => last.res.ok
    /\ Len(history) < MaxHistory
    /\ \E event \in ReplayEvents :
          LET r == apply(replica, event)
          IN  /\ replica' = r.replica
              /\ last' = [op |-> "replay", arg |-> event, res |-> r.res]
              /\ history' = Append(history, event)
    /\ UNCHANGED <<applied_debits, validated_debits, signing>>

NextReplay == ReplayStep

SpecReplay == Init /\ [][NextReplay]_vars

(***************************************************************************)
(* ReplicaSigning: sign_transfer and try_genesis, one step per call into   *)
(* the signer gateway (the only suspension points).                        *)
(***************************************************************************)
MaxThreshold == 1
MaxKeyIndex == 1

(* What the gateway may answer: this replica's share over the bytes, a     *)
(* failure, or the cancellation of the call.                               *)
GatewayAnswers == {"share", "SignerFailure", "Cancelled"}
NoShare == [group |-> "none", index |-> 0, over |-> <<>>]

sign_with_secret_key_share(self, bytes, answer) ==
    IF answer = "share"
    THEN [ok |-> TRUE, err |-> "none",
          share |-> [group |-> self.peer_replicas.group, index |-> self.key_index,
                     over |-> bytes]]
    ELSE [ok |-> FALSE, err |-> answer, share |-> NoShare]

SignatureShare(index, share) == [index |-> index, share |-> share]

sign_validated_debit(self, debit, answer) ==
    LET g == sign_with_secret_key_share(self, serialize_signed_debit(debit), answer)
    IN  IF ~g.ok THEN rejected(g.err)
        ELSE success(SignatureShare(self.key_index, g.share))

sign_validated_credit(self, credit, answer) ==
    LET g == sign_with_secret_key_share(self, serialize_signed_credit(credit), answer)
    IN  IF ~g.ok THEN rejected(g.err)
        ELSE success(SignatureShare(self.key_index, g.share))

(* The end of sign_transfer, from the two Option<SignatureShare>.          *)
sign_transfer(replica_debit_sig, replica_credit_sig) ==
    IF is_some(replica_debit_sig) /\ is_some(replica_credit_sig)
    THEN success(<<replica_debit_sig[1], replica_credit_sig[1]>>)
    ELSE rejected("InvalidSignature")

(* PublicKeySet::combine_signatures over a map index -> share: more than   *)
(* threshold shares are needed; the interpolation gives the group's        *)
(* signature when every share is a share of this group over the same bytes *)
(* and sits at its own index (with threshold 0 every share is the group's  *)
(* signature already).                                                     *)
combine_signatures(pks, shares) ==
    IF Cardinality(DOMAIN shares) <= pks.threshold
    THEN [ok |-> FALSE, sig |-> Sign(ForgerKey, <<>>)]
    ELSE LET one == shares[CHOOSE i \in DOMAIN shares : TRUE]
             good == \A i \in DOMAIN shares :
                        /\ shares[i].group = pks.group
                        /\ shares[i].over = one.over
                        /\ pks.threshold = 0 \/ shares[i].index = i
         IN  [ok |-> TRUE,
              sig |-> Sign(IF good THEN pks.group ELSE ForgerKey, one.over)]

(* Money::from_nano: the amount in nanos.                                  *)
from_nano(nano) == nano

genesis_credit(nano, id) ==
    [id |-> DefaultCreditId, amount |-> from_nano(nano), recipient |-> id,
     msg |-> "genesis"]

(* The replica share taken over the credit instead of the signed credit.   *)
genesis_replica_bytes_of_credit(signed_credit) == serialize_credit(signed_credit.credit)

(* The bytes of the second gateway call of get_genesis.                    *)
genesis_replica_bytes(signed_credit) == serialize_signed_credit(signed_credit)

ResultOk(proof) == [ok |-> TRUE, err |-> "none", proof |-> <<proof>>]
ResultErr(e) == [ok |-> FALSE, err |-> e, proof |-> <<>>]

SignedTransfers ==
    {[debit |-> p.signed_debit, credit |-> p.signed_credit] : p \in TransferProofs}

SigningReplicas ==
    {ReplicaSigning_new(i, PublicKeySet(OwnGroup, t)) :
        i \in 0..MaxKeyIndex, t \in 0..MaxThreshold}

InitSigning ==
    /\ InitReplica
    /\ signing \in SigningReplicas

SigningReady == signing.pc \in {"idle", "done"}

Called(self, op, pc, arg) ==
    [self EXCEPT !.op = op, !.pc = pc, !.arg = arg, !.calls = <<>>, !.sent = <<>>,
                 !.partial = <<>>, !.result = <<>>]

CallSignTransfer ==
    /\ SigningReady
    /\ \E signed_transfer \in SignedTransfers :
          signing' = Called(signing, "sign_transfer", "sign_validated_debit", signed_transfer)
    /\ UNCHANGED <<replica, last, applied_debits, validated_debits, history>>

(* The gateway answers the call for the debit share.                       *)
SignTransferDebit ==
    /\ signing.op = "sign_transfer"
    /\ signing.pc = "sign_validated_debit"
    /\ \E answer \in GatewayAnswers :
          LET replica_debit_sig == sign_validated_debit(signing, signing.arg.debit, answer)
              called == [signing EXCEPT
                            !.calls = Append(signing.calls, answer),
                            !.sent = Append(signing.sent,
                                            serialize_signed_debit(signing.arg.debit))]
          IN  signing' =
                 IF replica_debit_sig.kind = "rejected"
                 THEN [called EXCEPT !.pc = "done",
                                     !.result = rejected(replica_debit_sig.err)]
                 ELSE [called EXCEPT !.pc = "sign_validated_credit",
                                     !.partial = replica_debit_sig.payload]
    /\ UNCHANGED <<replica, last, applied_debits, validated_debits, history>>

(* sign_transfer that hands out the debit share when the credit share     *)
(* could not be had.                                                       *)
SignTransferCredit_partial ==
    /\ signing.op = "sign_transfer"
    /\ signing.pc = "sign_validated_credit"
    /\ \E answer \in GatewayAnswers :
          LET replica_credit_sig == sign_validated_credit(signing, signing.arg.credit, answer)
              called == [signing EXCEPT
                            !.calls = Append(signing.calls, answer),
                            !.sent = Append(signing.sent,
                                            serialize_signed_credit(signing.arg.credit))]
          IN  signing' =
                 [called EXCEPT !.pc = "done",
                                !.result = success(signing.partial \o
                                                   replica_credit_sig.payload)]
    /\ UNCHANGED <<replica, last, applied_debits, validated_debits, history>>

(* The gateway answers the call for the credit share.                      *)
SignTransferCredit ==
    /\ signing.op = "sign_transfer"
    /\ signing.pc = "sign_validated_credit"
    /\ \E answer \in GatewayAnswers :
          LET replica_credit_sig == sign_validated_credit(signing, signing.arg.credit, answer)
              called == [signing EXCEPT
                            !.calls = Append(signing.calls, answer),
                            !.sent = Append(signing.sent,
                                            serialize_signed_credit(signing.arg.credit))]
          IN  signing' =
                 IF replica_credit_sig.kind = "rejected"
                 THEN [called EXCEPT !.pc = "done",
                                     !.result = rejected(replica_credit_sig.err)]
                 ELSE [called EXCEPT !.pc = "done",
                                     !.result = sign_transfer(signing.partial,
                                                              replica_credit_sig.payload)]
    /\ UNCHANGED <<replica, last, applied_debits, validated_debits, history>>

CallTryGenesis ==
    /\ SigningReady
    /\ \E nano \in Amounts :
          signing' = Called(signing, "try_genesis", "actor_share", nano)
    /\ UNCHANGED <<replica, last, applied_debits, validated_debits, history>>

(* get_genesis that goes on to the second gateway call after the first one *)
(* failed.                                                                 *)
GenesisActorShare_ignoring_failure ==
    /\ signing.op = "try_genesis"
    /\ signing.pc = "actor_share"
    /\ \E answer \in GatewayAnswers :
          LET peer_replicas == signing.peer_replicas
              credit == genesis_credit(signing.arg, set_public_key(peer_replicas))
              credit_sig_share ==
                  sign_with_secret_key_share(signing, serialize_credit(credit), answer)
              actor_signature == combine_signatures(peer_replicas, 0 :> credit_sig_share.share)
              called == [signing EXCEPT
                            !.calls = Append(signing.calls, answer),
                            !.sent = Append(signing.sent, serialize_credit(credit))]
          IN  signing' =
                 IF ~actor_signature.ok
                 THEN [called EXCEPT !.pc = "done",
                                     !.result = ResultErr("CannotAggregate")]
                 ELSE [called EXCEPT !.pc = "replica_share",
                                     !.partial = <<[credit |-> credit,
                                                    actor_signature |-> actor_signature.sig]>>]
    /\ UNCHANGED <<replica, last, applied_debits, validated_debits, history>>

(* get_genesis up to its second gateway call: the gateway answers the call *)
(* for the share over the credit, taken "as actor".                        *)
GenesisActorShare ==
    /\ signing.op = "try_genesis"
    /\ signing.pc = "actor_share"
    /\ \E answer \in GatewayAnswers :
          LET peer_replicas == signing.peer_replicas
              credit == genesis_credit(signing.arg, set_public_key(peer_replicas))
              credit_sig_share ==
                  sign_with_secret_key_share(signing, serialize_credit(credit), answer)
              actor_signature == combine_signatures(peer_replicas, 0 :> credit_sig_share.share)
              called == [signing EXCEPT
                            !.calls = Append(signing.calls, answer),
                            !.sent = Append(signing.sent, serialize_credit(credit))]
          IN  signing' =
                 IF ~credit_sig_share.ok
                 THEN [called EXCEPT !.pc = "done",
                                     !.result = ResultErr(credit_sig_share.err)]
                 ELSE IF ~actor_signature.ok
                 THEN [called EXCEPT !.pc = "done",
                                     !.result = ResultErr("CannotAggregate")]
                 ELSE [called EXCEPT !.pc = "replica_share",
                                     !.partial = <<[credit |-> credit,
                                                    actor_signature |-> actor_signature.sig]>>]
    /\ UNCHANGED <<replica, last, applied_debits, validated_debits, history>>

(* The rest of get_genesis: the gateway answers the call for the share     *)
(* over the signed credit, taken "as replica".                             *)
GenesisReplicaShare ==
    /\ signing.op = "try_genesis"
    /\ signing.pc = "replica_share"
    /\ \E answer \in GatewayAnswers :
          LET peer_replicas == signing.peer_replicas
              signed_credit == signing.partial[1]
              credit_sig_share ==
                  sign_with_secret_key_share(signing, genesis_replica_bytes(signed_credit),
                                             answer)
              debiting_replicas_sig ==
                  combine_signatures(peer_replicas, 0 :> credit_sig_share.share)
              called == [signing EXCEPT
                            !.calls = Append(signing.calls, answer),
                            !.sent = Append(signing.sent,
                                            genesis_replica_bytes(signed_credit))]
          IN  signing' =
                 IF ~credit_sig_share.ok
                 THEN [called EXCEPT !.pc = "done",
                                     !.result = ResultErr(credit_sig_share.err)]
                 ELSE IF ~debiting_replicas_sig.ok
                 THEN [called EXCEPT !.pc = "done",
                                     !.result = ResultErr("CannotAggregate")]
                 ELSE [called EXCEPT !.pc = "done",
                                     !.result = ResultOk(
                                         [signed_credit |-> signed_credit,
                                          debiting_replicas_sig |-> debiting_replicas_sig.sig,
                                          debiting_replicas_keys |-> peer_replicas])]
    /\ UNCHANGED <<replica, last, applied_debits, validated_debits, history>>

NextSigning ==
    \/ CallSignTransfer \/ SignTransferDebit \/ SignTransferCredit
    \/ CallTryGenesis \/ GenesisActorShare \/ GenesisReplicaShare

SpecSigning == InitSigning /\ [][NextSigning]_vars

(***************************************************************************)
(* Properties.                                                             *)
(***************************************************************************)

(* C1: when every TransferRegistered event is applied only after register  *)
(* returned success for its proof on the current state, the debit counters *)
(* applied to the wallet are 0, 1, 2, ... in that order, without gap or    *)
(* repeat, and the wallet's next debit counter is their number.            *)
C1_DebitCountersSequential ==
    /\ \A i \in 1..Len(applied_debits) : applied_debits[i] = i - 1
    /\ next_debit(replica.wallet) = Len(applied_debits)

C1_Witness ==
    /\ Len(applied_debits) >= 2
    /\ last.op = "apply"
    /\ last.kind = "TransferRegistered"
    /\ last.res.ok

(* C2: a credit proof that passes signature verification and whose credit  *)
(* id the wallet does not contain is accepted with success; applying its   *)
(* TransferPropagated event adds exactly the credit amount to the balance; *)
(* the wallet then contains the credit id for good, so that the proof      *)
(* received again returns no_change; and no call changes the balance.      *)
CreditOf(proof) == proof.signed_credit.credit

C2_FirstSuccess ==
    (/\ last.op = "receive_propagated"
     /\ verify_propagated_proof(replica, last.arg, last.past_key).ok
     /\ ~contains(replica.wallet, CreditOf(last.arg).id))
    => last.out = success(Unit)

C2_ApplyOnce ==
    (/\ last.op = "receive_propagated"
     /\ last.out.kind = "success"
     /\ last'.op = "apply")
    => /\ last'.res.ok
       /\ balance(replica') = balance(replica) + CreditOf(last.arg).amount
       /\ contains(replica'.wallet, CreditOf(last.arg).id)

C2_SecondNoChange ==
    (/\ last.op = "receive_propagated"
     /\ verify_propagated_proof(replica, last.arg, last.past_key).ok
     /\ contains(replica.wallet, CreditOf(last.arg).id))
    => last.out = no_change

C2_CreditIdempotent ==
    /\ []C2_FirstSuccess
    /\ []C2_SecondNoChange
    /\ [][C2_ApplyOnce]_vars
    /\ [][replica.wallet.credit_ids \subseteq replica'.wallet.credit_ids]_vars
    /\ [][last'.op # "apply" => balance(replica') = balance(replica)]_vars

C2_Witness ==
    /\ last.op = "receive_propagated"
    /\ last.out = no_change
    /\ CreditOf(last.arg).amount > 0
    /\ balance(replica) = CreditOf(last.arg).amount

(* The eight preconditions of validate, as the specification lists them.   *)
ActorSignaturesVerify(sd, sc) ==
    /\ verify(sd.debit.id.actor, sd.actor_signature, serialize_debit(sd.debit))
    /\ verify(sd.debit.id.actor, sc.actor_signature, serialize_credit(sc.credit))

CounterInOrder(self, d) ==
    IF is_none(self.pending_debit)
    THEN d.id.counter = 0
    ELSE d.id.counter = self.pending_debit[1] + 1

PreconditionsOneToSix(self, sd, sc) ==
    /\ ActorSignaturesVerify(sd, sc)
    /\ sd.debit.id.actor # sc.credit.recipient
    /\ sc.credit.id = credit_id(sd.debit)
    /\ sc.credit.amount = sd.debit.amount
    /\ sd.debit.amount > 0
    /\ self.wallet.id = sd.debit.id.actor

PreconditionsOneToSeven(self, sd, sc) ==
    /\ PreconditionsOneToSix(self, sd, sc)
    /\ CounterInOrder(self, sd.debit)

AllPreconditions(self, sd, sc) ==
    /\ PreconditionsOneToSeven(self, sd, sc)
    /\ sd.debit.amount <= balance(self)

(* C3: validate returns success if and only if all eight preconditions     *)
(* hold, whether pending_debit is None or Some.                            *)
C3_ValidateIffPreconditions ==
    last.op = "validate" =>
        (last.out.kind = "success"
            <=> AllPreconditions(replica, last.arg.signed_debit, last.arg.signed_credit))

(* The keys under which a registered or a propagated proof may verify.     *)
PastKeys(past_key) == IF past_key.ok THEN {past_key.key} ELSE {}

RegisteredSignedBy(proof, k) ==
    /\ verify(k, proof.debit_sig, serialize_signed_debit(proof.signed_debit))
    /\ verify(k, proof.credit_sig, serialize_signed_credit(proof.signed_credit))

PropagatedSignedBy(proof, k) ==
    verify(k, proof.debiting_replicas_sig, serialize_signed_credit(proof.signed_credit))

(* C4: whenever the supplied signatures do not verify, validate, register  *)
(* and receive_propagated answer InvalidSignature, whatever past_key       *)
(* returns and whatever else is wrong with the input.                      *)
C4_ForgedSignatureFirst ==
    /\ (last.op = "validate"
        /\ ~ActorSignaturesVerify(last.arg.signed_debit, last.arg.signed_credit))
       => last.out = rejected("InvalidSignature")
    /\ (last.op = "register"
        /\ \A k \in {public_key(replica.peer_replicas)} \cup PastKeys(last.past_key) :
              ~RegisteredSignedBy(last.arg, k))
       => last.out = rejected("InvalidSignature")
    /\ (last.op = "receive_propagated"
        /\ \A k \in {public_key(replica.peer_replicas)} \cup PastKeys(last.past_key)
                       \cup {public_key(g) : g \in replica.other_groups} :
              ~PropagatedSignedBy(last.arg, k))
       => last.out = rejected("InvalidSignature")

(* C5: once genesis succeeded and its event was applied, the next genesis  *)
(* call with a validly signed proof is rejected with InvalidOperation.     *)
C5_GenesisOneShotStep ==
    (/\ last.op = "apply"
     /\ last.of = "genesis"
     /\ last.res.ok
     /\ last'.op = "genesis"
     /\ PropagatedSignedBy(last'.arg, public_key(replica.peer_replicas)))
    => last'.out = rejected("InvalidOperation")

C5_GenesisOneShot == [][C5_GenesisOneShotStep]_vars

(* C8: receive_propagated passes signature verification exactly when the   *)
(* aggregate signature verifies under the own group key, the past key or   *)
(* the key of a known group, and answers InvalidSignature otherwise.       *)
C8_PropagatedAcceptance ==
    last.op = "receive_propagated" =>
        IF \E k \in {public_key(replica.peer_replicas)} \cup PastKeys(last.past_key)
                       \cup {public_key(g) : g \in replica.other_groups} :
              PropagatedSignedBy(last.arg, k)
        THEN last.out.kind \in {"success", "no_change"}
        ELSE last.out = rejected("InvalidSignature")

(* C6: from_history over the events consumed so far gives what applying    *)
(* them one by one to the empty replica gives: the same replica when every *)
(* apply succeeded, the error of the first failing apply and no replica    *)
(* otherwise.                                                              *)
C6_ReplayLaw ==
    LET r == from_history(WalletId, ReplicaId, KeyIndex, OwnGroup, history)
    IN  IF last.op = "replay" /\ ~last.res.ok
        THEN r.res = last.res /\ r.replica = <<>>
        ELSE r.res.ok /\ r.replica = <<replica>>

C6_Witness ==
    /\ Len(history) >= 3
    /\ last.op = "replay"
    /\ ~last.res.ok
    /\ balance(replica) > 0
    /\ is_some(replica.pending_debit)

(* C7 as stated: a proof whose two aggregate signatures verify under a     *)
(* past key k and not under the current key passes signature verification  *)
(* when past_key returns k and is answered InvalidSignature when it        *)
(* returns another key or an error; a proof passes only when one single    *)
(* key, current or past, verifies both signatures.                         *)
PassesRegisteredVerification(out) ==
    out.kind = "success" \/ out = rejected("InvalidOperation")

C7_PastKeyAnyProof ==
    last.op = "register" =>
        LET our_key == public_key(replica.peer_replicas)
        IN  /\ \A k \in (GroupKeys \cup {ForgerKey}) \ {our_key} :
                  (RegisteredSignedBy(last.arg, k) /\ ~RegisteredSignedBy(last.arg, our_key))
                  => IF last.past_key.ok /\ last.past_key.key = k
                     THEN PassesRegisteredVerification(last.out)
                     ELSE last.out = rejected("InvalidSignature")
            /\ PassesRegisteredVerification(last.out)
               => \E k \in {our_key} \cup PastKeys(last.past_key) :
                     RegisteredSignedBy(last.arg, k)

(* C7, amended: the same, for proofs whose credit id equals the debit's    *)
(* credit_id(); a proof whose credit does not correspond to its debit is   *)
(* answered InvalidSignature whatever key signed it.                       *)
C7_PastKeyTolerance ==
    last.op = "register" =>
        LET our_key == public_key(replica.peer_replicas)
            corresponds == last.arg.signed_credit.credit.id = credit_id(last.arg.signed_debit.debit)
        IN  /\ \A k \in (GroupKeys \cup {ForgerKey}) \ {our_key} :
                  (RegisteredSignedBy(last.arg, k) /\ ~RegisteredSignedBy(last.arg, our_key))
                  => IF last.past_key.ok /\ last.past_key.key = k /\ corresponds
                     THEN PassesRegisteredVerification(last.out)
                     ELSE last.out = rejected("InvalidSignature")
            /\ PassesRegisteredVerification(last.out)
               => /\ corresponds
                  /\ \E k \in {our_key} \cup PastKeys(last.past_key) :
                        RegisteredSignedBy(last.arg, k)

C7_Witness ==
    /\ last.op = "register"
    /\ RegisteredSignedBy(last.arg, PastGroup)
    /\ last.past_key = OkKey(PastGroup)
    /\ last.out.kind = "success"

(* C9: validate is strictly sequential.  With pending_debit None every     *)
(* debit whose counter is not 0 is rejected; once TransferValidated for    *)
(* counter c is applied pending_debit is c, every counter other than c+1   *)
(* (c itself included) is rejected, as out of order when nothing else is   *)
(* wrong with the transfer, and an otherwise valid debit with counter c+1  *)
(* is accepted.                                                            *)
C9_State ==
    last.op = "validate" =>
        LET sd == last.arg.signed_debit
            sc == last.arg.signed_credit
            counter == sd.debit.id.counter
        IN  /\ (is_none(replica.pending_debit) /\ counter # 0)
               => /\ last.out.kind = "rejected"
                  /\ PreconditionsOneToSix(replica, sd, sc) => last.out.err = ErrOrderFirst
            /\ (is_some(replica.pending_debit) /\ counter # replica.pending_debit[1] + 1)
               => /\ last.out.kind = "rejected"
                  /\ PreconditionsOneToSix(replica, sd, sc) => last.out.err = ErrOrder
            /\ (is_some(replica.pending_debit) /\ AllPreconditions(replica, sd, sc))
               => last.out = success(Unit)

C9_Step ==
    (last'.op = "apply" /\ last'.kind = "TransferValidated")
    => /\ last.op = "validate"
       /\ last.out = success(Unit)
       /\ replica'.pending_debit = Some(last.arg.signed_debit.debit.id.counter)

C9_SequentialValidate == []C9_State /\ [][C9_Step]_vars

C9_Witness ==
    /\ last.op = "validate"
    /\ replica.pending_debit = Some(0)
    /\ last.arg.signed_debit.debit.id.counter = 1
    /\ last.arg.signed_debit.debit.amount <= balance(replica)
    /\ last.out = success(Unit)

(* C10: for a proof that passes verify_registered_proof, register returns  *)
(* success carrying TransferRegistered with that very proof when the debit *)
(* counter equals wallet.next_debit(), and rejects with InvalidOperation   *)
(* for every other counter, lower or higher.                               *)
C10_RegisterCounter ==
    (last.op = "register" /\ verify_registered_proof(replica, last.arg, last.past_key).ok)
    => IF last.arg.signed_debit.debit.id.counter = next_debit(replica.wallet)
       THEN last.out = success(TransferRegistered(last.arg))
       ELSE last.out = rejected("InvalidOperation")

C10_Witness ==
    /\ last.op = "register"
    /\ verify_registered_proof(replica, last.arg, last.past_key).ok
    /\ last.arg.signed_debit.debit.id.counter < next_debit(replica.wallet)
    /\ last.out = rejected("InvalidOperation")

IsPrefix(a, b) == Len(a) <= Len(b) /\ \A i \in 1..Len(a) : a[i] = b[i]

CountingUp(seq) == \A i \in 1..Len(seq) : seq[i] = i - 1

(* C11 as stated: the counters applied through TransferRegistered are a    *)
(* prefix of the counters recorded through TransferValidated, i.e. no      *)
(* debit is registered on a replica before it was validated there.         *)
C11_AppliedPrefixOfValidated == IsPrefix(applied_debits, validated_debits)

(* C11, amended: the counters applied through TransferRegistered and the   *)
(* counters recorded through TransferValidated are each 0, 1, 2, ... in    *)
(* order, so that one sequence is a prefix of the other and debits are     *)
(* applied in the order in which they are validated; register does not     *)
(* ask for the debit to have been validated on this replica.               *)
C11_SameOrder ==
    /\ CountingUp(applied_debits)
    /\ CountingUp(validated_debits)
    /\ IsPrefix(applied_debits, validated_debits) \/ IsPrefix(validated_debits, applied_debits)

C11_Witness ==
    /\ Len(validated_debits) >= 2
    /\ Len(applied_debits) >= 2
    /\ last.op = "apply"
    /\ last.kind = "TransferRegistered"
    /\ last.res.ok

Commands == {"validate", "register", "receive_propagated", "genesis", "add_known_group"}

(* C12: validate, register, receive_propagated, genesis and                *)
(* add_known_group leave every field of the replica unchanged whatever     *)
(* they return; the replica changes only in a step of apply.               *)
C12_ValidationNeverMutates ==
    [][/\ last'.op \in Commands => replica' = replica
       /\ replica' # replica => last'.op = "apply"]_vars

C12_Witness ==
    /\ last.op = "validate"
    /\ last.out.kind = "success"
    /\ last.arg.signed_debit.debit.id.counter = 0
    /\ is_none(replica.pending_debit)

C13_State ==
    last.op = "add_known_group"
    => IF last.arg \in replica.other_groups
       THEN last.out = rejected("DataExists")
       ELSE last.out = success(KnownGroupAdded(last.arg))

C13_Step ==
    /\ (last.op = "add_known_group" /\ last'.op = "apply")
       => /\ last.arg \in replica'.other_groups
          /\ add_known_group(replica', last.arg) = rejected("DataExists")
    /\ replica.other_groups \subseteq replica'.other_groups

(* C13: add_known_group(g) rejects with DataExists exactly when g is       *)
(* already in other_groups and otherwise returns KnownGroupAdded{g}; once  *)
(* that event is applied g is in other_groups, stays there, and a repeated *)
(* add_known_group(g) rejects with DataExists.                             *)
C13_KnownGroups == []C13_State /\ [][C13_Step]_vars

C13_Witness ==
    /\ last.op = "add_known_group"
    /\ last.arg \in replica.other_groups
    /\ last.out = rejected("DataExists")

SharesAnswered == \A i \in 1..Len(signing.calls) : signing.calls[i] = "share"

FirstFailure ==
    signing.calls[CHOOSE i \in 1..Len(signing.calls) :
                     /\ signing.calls[i] # "share"
                     /\ \A j \in 1..(i - 1) : signing.calls[j] = "share"]

BothShares ==
    success(<<SignatureShare(signing.key_index,
                             [group |-> signing.peer_replicas.group,
                              index |-> signing.key_index,
                              over |-> serialize_signed_debit(signing.arg.debit)]),
              SignatureShare(signing.key_index,
                             [group |-> signing.peer_replicas.group,
                              index |-> signing.key_index,
                              over |-> serialize_signed_credit(signing.arg.credit)])>>)

SignTransferDone == signing.op = "sign_transfer" /\ signing.pc = "done"

(* C14 as stated: whatever the two gateway calls answer, sign_transfer     *)
(* returns both signature shares or fails with InvalidSignature.           *)
C14_BothOrInvalidSignature ==
    SignTransferDone
    => \/ signing.result = BothShares
       \/ signing.result = rejected("InvalidSignature")

(* C14, amended: whatever the two gateway calls answer (debit share first, *)
(* then credit share), sign_transfer returns both signature shares when    *)
(* both calls gave a share and otherwise fails with the error of the first *)
(* call that failed; it never returns one share only.                      *)
C14_BothOrGatewayError ==
    SignTransferDone
    => IF SharesAnswered
       THEN Len(signing.calls) = 2 /\ signing.result = BothShares
       ELSE signing.result = rejected(FirstFailure)

C14_Witness ==
    /\ SignTransferDone
    /\ signing.calls = <<"share", "Cancelled">>
    /\ signing.result = rejected("Cancelled")

TryGenesisDone == signing.op = "try_genesis" /\ signing.pc = "done"

(* C15: for every balance, threshold and key index, a proof returned by    *)
(* try_genesis(balance) credits balance nanos with msg "genesis" and the   *)
(* default id to the group's aggregate key, carries peer_replicas as       *)
(* debiting_replicas_keys, and its actor signature and                     *)
(* debiting_replicas_sig verify under the group key; when the one share    *)
(* obtained cannot be combined (threshold above 0) the result is           *)
(* CannotAggregate; with threshold 0 and an answering gateway a proof is   *)
(* returned.                                                               *)
C15_GenesisMint ==
    TryGenesisDone
    => LET group_key == set_public_key(signing.peer_replicas)
       IN  /\ signing.result.ok
              => LET proof == signing.result.proof[1]
                     signed_credit == proof.signed_credit
                 IN  /\ signed_credit.credit =
                           [id |-> DefaultCreditId, amount |-> signing.arg,
                            recipient |-> group_key, msg |-> "genesis"]
                     /\ proof.debiting_replicas_keys = signing.peer_replicas
                     /\ verify(group_key, signed_credit.actor_signature,
                               serialize_credit(signed_credit.credit))
                     /\ verify(group_key, proof.debiting_replicas_sig,
                               serialize_signed_credit(signed_credit))
           /\ (SharesAnswered /\ signing.peer_replicas.threshold > 0)
              => signing.result = ResultErr("CannotAggregate")
           /\ (SharesAnswered /\ signing.peer_replicas.threshold = 0)
              => signing.result.ok

C15_Witness ==
    /\ TryGenesisDone
    /\ signing.result.ok
    /\ signing.key_index = 1
    /\ signing.arg = 2
    /\ Len(signing.calls) = 2

(* The events of the replay that apply accepted.                           *)
AppliedEvents ==
    IF last.op = "replay" /\ ~last.res.ok
    THEN SubSeq(history, 1, Len(history) - 1)
    ELSE history

RECURSIVE CreditsSum(_)
CreditsSum(events) ==
    IF Len(events) = 0 THEN 0
    ELSE CreditsSum(Tail(events))
         + IF Head(events).kind = "TransferPropagated"
           THEN Head(events).credit_proof.signed_credit.credit.amount
           ELSE 0

RECURSIVE DebitsSum(_)
DebitsSum(events) ==
    IF Len(events) = 0 THEN 0
    ELSE DebitsSum(Tail(events))
         + IF Head(events).kind = "TransferRegistered"
           THEN Head(events).transfer_proof.signed_debit.debit.amount
           ELSE 0

(* C16: after any sequence of successfully applied events on the empty     *)
(* replica, the balance is the sum of the applied credits' amounts minus   *)
(* the sum of the applied debits' amounts, and it is not negative.         *)
C16_BalanceIsSum ==
    /\ balance(replica) = CreditsSum(AppliedEvents) - DebitsSum(AppliedEvents)
    /\ balance(replica) >= 0

C16_Witness ==
    /\ Len(AppliedEvents) = 3
    /\ CreditsSum(AppliedEvents) = 3
    /\ DebitsSum(AppliedEvents) = 2
    /\ balance(replica) = 1

C17_State ==
    /\ is_none(replica.pending_debit) <=> Len(validated_debits) = 0
    /\ is_some(replica.pending_debit)
       => replica.pending_debit = Some(validated_debits[Len(validated_debits)])
    /\ CountingUp(validated_debits)

C17_Step ==
    /\ is_some(replica.pending_debit)
       => /\ is_some(replica'.pending_debit)
          /\ replica'.pending_debit[1] \in
                {replica.pending_debit[1], replica.pending_debit[1] + 1}
    /\ replica'.pending_debit # replica.pending_debit
       => /\ last'.op = "apply"
          /\ last'.kind = "TransferValidated"
    /\ (is_none(replica.pending_debit) /\ is_some(replica'.pending_debit))
       => replica'.pending_debit = Some(0)

(* C17: pending_debit is None in a fresh replica and until the first       *)
(* TransferValidated event is applied; from then on it is the counter of   *)
(* the latest applied TransferValidated event, goes through 0, 1, 2, ...   *)
(* along validated-then-applied debits, and never decreases or returns to  *)
(* None.                                                                   *)
C17_PendingDebit == []C17_State /\ [][C17_Step]_vars

C17_Witness ==
    /\ validated_debits = <<0, 1>>
    /\ replica.pending_debit = Some(1)
    /\ last.op = "apply"
    /\ last.kind = "TransferValidated"

(* C18: whether pending_debit is None or Some(c), a debit that passes      *)
(* preconditions 1 to 7 and whose amount exceeds the balance is rejected   *)
(* with InsufficientBalance.                                               *)
C18_InsufficientBalance ==
    (/\ last.op = "validate"
     /\ PreconditionsOneToSeven(replica, last.arg.signed_debit, last.arg.signed_credit)
     /\ last.arg.signed_debit.debit.amount > balance(replica))
    => last.out = rejected("InsufficientBalance")

(* The rejections the specification allows for the first precondition that *)
(* fails, in the order 1 to 8.                                             *)
FirstFailingReason(self, sd, sc) ==
    IF ~ActorSignaturesVerify(sd, sc) THEN {rejected("InvalidSignature")}
    ELSE IF sd.debit.id.actor = sc.credit.recipient THEN {rejected(ErrSameParty)}
    ELSE IF sc.credit.id # credit_id(sd.debit) THEN {rejected(ErrCreditMismatch)}
    ELSE IF sc.credit.amount # sd.debit.amount THEN {rejected(ErrAmounts)}
    ELSE IF sd.debit.amount = 0 THEN {rejected(ErrZero)}
    ELSE IF self.wallet.id # sd.debit.id.actor THEN {rejected("NoSuchSender")}
    ELSE IF ~CounterInOrder(self, sd.debit)
    THEN {rejected(ErrOrderFirst), rejected(ErrOrder)}
    ELSE {rejected("InsufficientBalance")}

(* C19: validate checks its preconditions in the order 1 to 8 and rejects  *)
(* with the reason of the first one that fails: InvalidSignature only for  *)
(* an actor signature that does not verify, a message for equal sender and *)
(* recipient, for a credit id other than debit.credit_id() and for unequal *)
(* amounts, Unexpected for a zero amount, NoSuchSender for a foreign       *)
(* sender, an out-of-order error for a wrong counter and                   *)
(* InsufficientBalance for an unfunded debit.                              *)
C19_FirstFailingReason ==
    (/\ last.op = "validate"
     /\ ~AllPreconditions(replica, last.arg.signed_debit, last.arg.signed_credit))
    => last.out \in FirstFailingReason(replica, last.arg.signed_debit,
                                       last.arg.signed_credit)

(* C20: genesis rejects with InvalidOperation when the balance is not zero *)
(* or pending_debit is Some, whatever the proof and its signatures, and    *)
(* otherwise returns what receive_propagated returns for the same proof    *)
(* and past key on that state.                                             *)
C20_GenesisDelegates ==
    last.op = "genesis"
    => IF balance(replica) # 0 \/ is_some(replica.pending_debit)
       THEN last.out = rejected("InvalidOperation")
       ELSE last.out = receive_propagated(replica, last.arg, last.past_key)

C20_Witness ==
    /\ last.op = "genesis"
    /\ balance(replica) = 0
    /\ is_some(replica.pending_debit)
    /\ PropagatedSignedBy(last.arg, ForgerKey)
    /\ last.out = rejected("InvalidOperation")

(* What C21 says of the calls made so far, of their order and of a call    *)
(* that failed or was cancelled.                                           *)
C21_CallsInOrder ==
    LET group_key == set_public_key(signing.peer_replicas)
        credit == genesis_credit(signing.arg, group_key)
        signed_credit == [credit |-> credit,
                          actor_signature |-> Sign(group_key, serialize_credit(credit))]
    IN  /\ Len(signing.sent) = Len(signing.calls)
        /\ Len(signing.calls) <= 2
        /\ signing.pc = "actor_share" <=> Len(signing.calls) = 0
        /\ signing.pc = "replica_share"
           => (Len(signing.calls) = 1 /\ signing.calls[1] = "share")
        /\ Len(signing.sent) >= 1 => signing.sent[1] = serialize_credit(credit)
        /\ Len(signing.sent) = 2
           => /\ signing.calls[1] = "share"
              /\ signing.sent[2] = serialize_signed_credit(signed_credit)
        /\ (signing.pc = "done" /\ ~SharesAnswered)
           => /\ signing.calls[Len(signing.calls)] = FirstFailure
              /\ signing.result = ResultErr(FirstFailure)
        /\ (signing.pc = "done" /\ signing.result.ok) => Len(signing.calls) = 2

(* C21 as stated: try_genesis calls the gateway exactly twice, over the    *)
(* credit and then over the signed credit built from the first share; only *)
(* a gateway call that fails or is cancelled ends it earlier, with that    *)
(* error and without a proof.                                              *)
C21_ExactlyTwoCalls ==
    signing.op = "try_genesis"
    => /\ C21_CallsInOrder
       /\ (signing.pc = "done" /\ SharesAnswered) => Len(signing.calls) = 2

(* C21, amended: try_genesis calls the gateway at most twice and suspends  *)
(* nowhere else, first over the bytes of the credit and then over the      *)
(* bytes of the signed credit built from the first share; it returns a     *)
(* proof only after both calls; when a gateway call fails or is cancelled  *)
(* it fails with that error, makes no later call and returns no proof; and *)
(* when the first share cannot be combined it fails with CannotAggregate   *)
(* after that one call.                                                    *)
C21_GatewayCalls ==
    signing.op = "try_genesis"
    => /\ C21_CallsInOrder
       /\ (signing.pc = "done" /\ SharesAnswered /\ Len(signing.calls) < 2)
          => (Len(signing.calls) = 1 /\ signing.result = ResultErr("CannotAggregate"))

C21_Witness ==
    /\ TryGenesisDone
    /\ signing.calls = <<"share", "Cancelled">>
    /\ signing.result = ResultErr("Cancelled")

(* C22: whenever register returns success with a TransferRegistered event, *)
(* apply of that event on the same state succeeds: the wallet's            *)
(* apply_debit fails neither on the counter nor on the amount.             *)
C22_RegisteredApplies ==
    (last.op = "register" /\ last.out.kind = "success")
    => apply(replica, EventOf(last)).res.ok

C23_State ==
    /\ replica.id = WalletId
    /\ replica.wallet.id = WalletId
    /\ replica.replica_id = ReplicaId
    /\ replica.key_index = KeyIndex
    /\ replica.peer_replicas = OwnGroup

C23_Step ==
    last'.op = "apply"
    => LET event == EventOf(last)
       IN  IF event.kind = "KnownGroupAdded"
           THEN replica' = [replica EXCEPT !.other_groups = @ \cup {event.group}]
           ELSE IF event.kind = "TransferValidated"
           THEN replica' = [replica EXCEPT
                               !.pending_debit = Some(event.signed_debit.debit.id.counter)]
           ELSE /\ [replica' EXCEPT !.wallet = replica.wallet] = replica
                /\ replica'.wallet.id = replica.wallet.id

(* C23: apply changes the component named for its event kind only:         *)
(* KnownGroupAdded adds the group to other_groups, TransferValidated sets  *)
(* pending_debit to the debit counter, TransferRegistered and              *)
(* TransferPropagated change the wallet; the wallet id, replica_id,        *)
(* key_index and peer_replicas are the same in every reachable state.      *)
C23_ApplyFrame == []C23_State /\ [][C23_Step]_vars

C23_Witness ==
    /\ last.op = "apply"
    /\ last.kind = "TransferRegistered"
    /\ last.res.ok
    /\ replica.pending_debit = Some(1)
    /\ replica.other_groups = KnownableGroups
    /\ next_debit(replica.wallet) = 2

(* C24: in every state reached by applying events that validate, register  *)
(* and receive_propagated accepted, validate does not return success for a *)
(* debit whose counter is lower than wallet.next_debit().                  *)
C24_NoSpentCounter ==
    (/\ last.op = "validate"
     /\ last.arg.signed_debit.debit.id.counter < next_debit(replica.wallet))
    => last.out.kind # "success"

(* C25: receive_propagated and genesis return success only for a credit    *)
(* whose recipient is the wallet id of the replica.                        *)
C25_OwnCreditsOnly ==
    (/\ last.op \in {"receive_propagated", "genesis"}
     /\ last.out.kind = "success")
    => CreditOf(last.arg).recipient = replica.id

====
